---- MODULE Spec2Model ----
(***************************************************************************)
(* Model of the rtic-syntax parsing front end: App::parse (the top-level   *)
(* item classifier / assembler), HardwareTask::parse and the helpers of    *)
(* parse/util.rs (extract_locals, parse_resources, parse_idents).          *)
(*                                                                         *)
(* Syntax nodes delivered by 'syn' are records.  Maps (IndexMap) are       *)
(* insertion-ordered sequences of [key, val] records.                      *)
(***************************************************************************)
EXTENDS Integers, Sequences, FiniteSets, TLC

VARIABLES
    settings,           \* the Settings record given to App::parse
    pos,                \* number of declarations of input.items taken by the 'for' loop
    item,               \* the declaration taken last (the loop variable)
    result,             \* "running", "Ok", "panic", or the message of the returned parse::Error
    inits, idles,       \* Vec<Init>, Vec<Idle>
    late_resources, resources, resource_struct,
    hardware_tasks, software_tasks,
    user_imports, user_code,
    extern_interrupts,
    seen_idents, bindings,
    arg, ret            \* argument and return value of a helper called on its own

appvars == <<settings, pos, item, result, inits, idles, late_resources, resources,
             resource_struct, hardware_tasks, software_tasks, user_imports,
             user_code, extern_interrupts, seen_idents, bindings>>

vars == <<settings, pos, item, result, inits, idles, late_resources, resources,
          resource_struct, hardware_tasks, software_tasks, user_imports,
          user_code, extern_interrupts, seen_idents, bindings, arg, ret>>

----------------------------------------------------------------------------
(* Bounds *)

\* number of declarations in the module handed to App::parse
MaxItems == 2
\* number of statements in a function body handed to extract_locals
MaxStmts == 4
\* number of entries in a bracketed resource list
MaxList == 3

\* the largest number of 'key = value' entries of the arguments of '#[app]'
MaxArgs == 2

\* the longest attribute list given to the helpers called on their own
MaxAttrs == 2

\* the largest value of a u8
U8Max == 255

----------------------------------------------------------------------------
(* Error messages (the source's text, with its backquotes written as ') *)

ErrBinding         == "a task has already been bound to this interrupt"
ErrIdentUsed       == "this identifier has already been used"
ErrInitTwice       == "'#[init]' function must appear at most once"
ErrIdleTwice       == "'#[idle]' function must appear at most once"
ErrTaskTwice       == "this task is defined multiple times"
ErrMisplaced       == "this item must live outside the '#[app]' module"
ErrResStructTwice  == "'#[resources]' struct must appear at most once"
ErrVisibility      == "this item must have inherited / private visibility"
ErrResourceTwice   == "this resource is listed more than once"
ErrNamedFields     == "this 'struct' must have named fields"
ErrExternTwice     == "this extern interrupt is listed more than once"
ErrReserved        == "tasks cannot be named 'init' or 'idle'"
ErrTaskSignature(name) ==
    "this task handler must have type signature 'fn(" \o name \o "::Context)'"
ErrLocalTwice      == "this local 'static' appears more than once"
ErrListShape       == "identifier appears more than once in list"
ErrResPath         == "resource must be an identifier, not a path"
ErrResListTwice    == "resource appears more than once in list"
ErrCoreMissing     == "core needs to be specified using the '#[core = 0]' attribute"
ErrSharedSingle    == "'#[shared]' can only be used in multi-core mode"
ErrUnsuffixed      == "this integer must be unsuffixed"
ErrCoreRange(cores) ==
    "core number must be in the range 0.." \o ToString(cores)
\* the error of str::parse::<u8> that base10_parse hands on
ErrParseInt        == "number too large to fit in target type"
ErrArgTwice        == "argument appears more than once"
ErrIntSuffix       == "integer must be unsuffixed"
ErrArgValue        == "argument has unexpected value"
\* the error of ParseStream::parse when the next token is not the wanted one
ErrExpected(what)  == "expected " \o what
\* errors of the parsers whose source is not part of the modelled files
ErrArgs            == "invalid attribute arguments"
ErrSignature       == "invalid signature"
ErrField           == "invalid resource field"

----------------------------------------------------------------------------
(* Sequences and insertion-ordered maps *)

Range(s) == {s[i] : i \in 1..Len(s)}

Remove(s, e) == [i \in 1..(Len(s) - 1) |-> IF i < e THEN s[i] ELSE s[i + 1]]

SeqsUpTo(S, n) == UNION {[1..k -> S] : k \in 0..n}

Keys(m) == {m[i].key : i \in 1..Len(m)}

KeySeq(m) == [i \in 1..Len(m) |-> m[i].key]

contains_key(m, k) == k \in Keys(m)

\* IndexMap::insert: replaces the value of a present key in place, appends otherwise
insert(m, k, v) ==
    IF contains_key(m, k)
    THEN [i \in 1..Len(m) |-> IF m[i].key = k THEN [key |-> k, val |-> v] ELSE m[i]]
    ELSE Append(m, [key |-> k, val |-> v])

NoDup(s) == \A i, j \in 1..Len(s) : s[i] = s[j] => i = j

----------------------------------------------------------------------------
(* Syntax nodes *)

\* syn::Attribute: style, path segments (idents, none with arguments), tokens
\* tokens: whether the attribute's argument tokens parse, and the interrupt of
\* a 'binds = ...' argument among them ("None" without one)
Attr(name, tokens) == [style |-> "Outer", path |-> <<name>>, tokens |-> tokens]

NoTokens == [valid |-> TRUE, binds |-> "None"]

\* the declaration slot before the loop has taken a declaration
NoItem == [kind |-> "None"]

\* no helper has been called on its own
NoCall == [fn |-> "-", input |-> <<>>]

NoRet == [done |-> FALSE, val |-> [ok |-> FALSE]]

\* a token of the arguments of '#[app]': an identifier, '=', ',', a path of
\* several segments, 'true' / 'false', an integer literal, a string literal
Tok(kind, text, suffix) == [kind |-> kind, text |-> text, suffix |-> suffix]

Eq == Tok("Eq", "=", "")

Comma == Tok("Comma", ",", "")

\* ast::CustomArg
CustomPath(p) == [kind |-> "Path", path |-> p, bool |-> FALSE, digits |-> ""]

CustomBool(b) == [kind |-> "Bool", path |-> "", bool |-> b, digits |-> ""]

CustomUInt(d) == [kind |-> "UInt", path |-> "", bool |-> FALSE, digits |-> d]

\* syn::LitInt: the decimal digits as a number, and the suffix
LitInt(value, suffix) == [value |-> value, suffix |-> suffix]

\* '#[core = lit]'; rhs is whether the tokens parse as '= <integer literal>'
CoreAttr(rhs, lit) ==
    [style |-> "Outer", path |-> <<"core">>,
     tokens |-> [valid |-> rhs, binds |-> "None", lit |-> lit]]

\* syn::Stmt: a 'static' item (with or without 'mut'), or any other statement
StaticStmt(m, id) == [node |-> "Item::Static", mutability |-> m, ident |-> id]

OtherStmt(k) == [node |-> k, mutability |-> FALSE, ident |-> "-"]

LocalNames == {"X", "Y"}

StmtSet == {StaticStmt(m, id) : m \in BOOLEAN, id \in LocalNames}
               \cup {OtherStmt("Local"), OtherStmt("Expr")}

\* syn::Type as far as the signature checks look into it
TyPath(segs) == [node |-> "Path", qself |-> FALSE, segments |-> segs, elems |-> 0, bounds |-> <<>>]

TyTuple(n) == [node |-> "Tuple", qself |-> FALSE, segments |-> <<>>, elems |-> n, bounds |-> <<>>]

TyNever == [node |-> "Never", qself |-> FALSE, segments |-> <<>>, elems |-> 0, bounds |-> <<>>]

\* 'impl B1 + B2 ..': each bound is a trait path segment with its bindings
TyImplTrait(bounds) ==
    [node |-> "ImplTrait", qself |-> FALSE, segments |-> <<>>, elems |-> 0, bounds |-> bounds]

GeneratorBound ==
    [ident |-> "Generator", plain |-> TRUE,
     args |-> << [ident |-> "Yield", ty |-> TyTuple(0)], [ident |-> "Return", ty |-> TyNever] >>]

\* syn::ReturnType
RetDefault == [kind |-> "Default", ty |-> TyTuple(0)]

RetType(ty) == [kind |-> "Type", ty |-> ty]

\* syn::FnArg
Typed(ty) == [typed |-> TRUE, ty |-> ty]

\* syn::Path: optional leading '::', segments with or without generic arguments
PathSeg(id, generic) == [ident |-> id, arguments |-> IF generic THEN "AngleBracketed" ELSE "None"]

PlainPath(id) == [leading_colon |-> FALSE, segments |-> <<PathSeg(id, FALSE)>>]

\* syn::Expr as far as parse_resources looks into it: node is "Path",
\* "Reference" or another expression kind; a reference carries the node of
\* the referenced expression and, when that is a path, the path
ExprPath(p) == [node |-> "Path", mutability |-> FALSE, inner |-> "-", path |-> p]

ExprRef(m, inner, p) == [node |-> "Reference", mutability |-> m, inner |-> inner, path |-> p]

ExprLit == [node |-> "Lit", mutability |-> FALSE, inner |-> "-", path |-> PlainPath("-")]

ResNames == {"a", "b"}

ExprSet ==
    {ExprPath(PlainPath(id)) : id \in ResNames}
    \cup {ExprRef(FALSE, "Path", PlainPath(id)) : id \in ResNames}
    \cup { ExprRef(TRUE, "Path", PlainPath("a")),
           ExprRef(FALSE, "Reference", PlainPath("a")),
           ExprLit,
           ExprPath([leading_colon |-> TRUE, segments |-> <<PathSeg("a", FALSE)>>]),
           ExprPath([leading_colon |-> FALSE, segments |-> <<PathSeg("a", FALSE), PathSeg("b", FALSE)>>]),
           ExprRef(FALSE, "Path", [leading_colon |-> FALSE, segments |-> <<PathSeg("a", TRUE)>>]) }

----------------------------------------------------------------------------
(* parse/util.rs *)

attr_eq(attr, name) ==
    attr.style = "Outer" /\ Len(attr.path) = 1 /\ attr.path[1] = name

\* LitInt::base10_parse::<u8>
base10_parse_u8(lit) == [ok |-> lit.value <= U8Max, val |-> lit.value]

\* a plausible slip: the range test off by one
core_in_range_inclusive(core, cores) == core <= cores

\* 'core < cores' / 'val < cores'
core_in_range(core, cores) == core < cores

RECURSIVE extract_core_loop(_, _, _)
extract_core_loop(attrs, cores, i) ==
    IF i > Len(attrs)
    THEN [ok |-> FALSE, err |-> ErrCoreMissing, core |-> 0, attrs |-> attrs]
    ELSE LET attr == attrs[i]
             parsed == base10_parse_u8(attr.tokens.lit)
         IN  IF attr_eq(attr, "core") /\ attr.tokens.valid /\ attr.tokens.lit.suffix = ""
             THEN IF ~parsed.ok
                  THEN [ok |-> FALSE, err |-> ErrParseInt, core |-> 0, attrs |-> attrs]
                  ELSE IF core_in_range(parsed.val, cores)
                  THEN [ok |-> TRUE, err |-> "", core |-> parsed.val,
                        attrs |-> Remove(attrs, i)]
                  ELSE extract_core_loop(attrs, cores, i + 1)
             ELSE extract_core_loop(attrs, cores, i + 1)

extract_core(attrs, cores) == extract_core_loop(attrs, cores, 1)

extract_shared(attrs, cores) ==
    LET found == {i \in 1..Len(attrs) : attr_eq(attrs[i], "shared")}
        p == CHOOSE i \in found : \A j \in found : i <= j
    IN  IF found # {}
        THEN IF cores = 1
             THEN [ok |-> FALSE, err |-> ErrSharedSingle, val |-> FALSE, attrs |-> attrs]
             ELSE [ok |-> TRUE, err |-> "", val |-> TRUE, attrs |-> Remove(attrs, p)]
        ELSE [ok |-> TRUE, err |-> "", val |-> FALSE, attrs |-> attrs]

parse_core(lit, cores) ==
    LET parsed == base10_parse_u8(lit)
    IN  IF lit.suffix # ""
        THEN [ok |-> FALSE, err |-> ErrUnsuffixed, val |-> 0]
        ELSE IF parsed.ok /\ core_in_range(parsed.val, cores)
        THEN [ok |-> TRUE, err |-> "", val |-> parsed.val]
        ELSE [ok |-> FALSE, err |-> ErrCoreRange(cores), val |-> 0]

\* a plausible slip: every 'static' is taken as a local, 'mut' or not
is_local_any_static(stmt) == stmt.node = "Item::Static"

\* the arm 'Stmt::Item(Item::Static(static_))' with 'static_.mutability.is_some()'
is_local(stmt) == stmt.node = "Item::Static" /\ stmt.mutability

\* the 'while let' loop of extract_locals from statement i on
RECURSIVE extract_locals_loop(_, _, _, _)
extract_locals_loop(stmts, i, seen, locals) ==
    IF i > Len(stmts)
    THEN [ok |-> TRUE, err |-> "", locals |-> locals, stmts |-> <<>>]
    ELSE LET stmt == stmts[i] IN
         IF is_local(stmt)
         THEN IF stmt.ident \in seen
              THEN [ok |-> FALSE, err |-> ErrLocalTwice, locals |-> <<>>, stmts |-> <<>>]
              ELSE extract_locals_loop(stmts, i + 1, seen \cup {stmt.ident},
                                       Append(locals, stmt))
         ELSE \* push the statement, break, then stmts.extend(istmts)
              [ok |-> TRUE, err |-> "", locals |-> locals,
               stmts |-> <<stmt>> \o SubSeq(stmts, i + 1, Len(stmts))]

extract_locals(stmts) == extract_locals_loop(stmts, 1, {}, <<>>)

\* the 'for' loop of parse_idents from identifier i on
RECURSIVE parse_idents_loop(_, _, _)
parse_idents_loop(list, i, idents) ==
    IF i > Len(list)
    THEN [ok |-> TRUE, err |-> "", idents |-> idents]
    ELSE IF list[i] \in Range(idents)
         THEN [ok |-> FALSE, err |-> ErrListShape, idents |-> <<>>]
         ELSE parse_idents_loop(list, i + 1, Append(idents, list[i]))

parse_idents(list) == parse_idents_loop(list, 1, <<>>)

\* a plausible slip: a reference entry is given Exclusive access as well
resource_entry_all_exclusive(e) ==
    IF e.node = "Path" \/ (e.node = "Reference" /\ ~e.mutability /\ e.inner = "Path")
    THEN [matched |-> TRUE, access |-> "Exclusive", path |-> e.path]
    ELSE [matched |-> FALSE, access |-> "-", path |-> e.path]

\* the 'match e' of parse_resources: the access and path of an entry, or no match
resource_entry(e) ==
    IF e.node = "Path"
    THEN [matched |-> TRUE, access |-> "Exclusive", path |-> e.path]
    ELSE IF e.node = "Reference" /\ ~e.mutability /\ e.inner = "Path"
         THEN [matched |-> TRUE, access |-> "Shared", path |-> e.path]
         ELSE [matched |-> FALSE, access |-> "-", path |-> e.path]

\* the 'for' loop of parse_resources from entry i on
RECURSIVE parse_resources_loop(_, _, _)
parse_resources_loop(list, i, resmap) ==
    IF i > Len(list)
    THEN [ok |-> TRUE, err |-> "", resources |-> resmap]
    ELSE LET m == resource_entry(list[i])
             path == m.path
         IN  IF ~m.matched
             THEN [ok |-> FALSE, err |-> ErrListShape, resources |-> <<>>]
             ELSE IF path.leading_colon \/ Len(path.segments) # 1
                        \/ path.segments[1].arguments # "None"
             THEN [ok |-> FALSE, err |-> ErrResPath, resources |-> <<>>]
             ELSE IF contains_key(resmap, path.segments[1].ident)
             THEN [ok |-> FALSE, err |-> ErrResListTwice, resources |-> <<>>]
             ELSE parse_resources_loop(list, i + 1,
                                       insert(resmap, path.segments[1].ident, m.access))

parse_resources(list) == parse_resources_loop(list, 1, <<>>)

\* the modifiers a signature may carry: visibility, const, async, abi, unsafe,
\* generic parameters, where clause, variadic argument
check_fn_signature(it) == it.modifiers = {}

check_foreign_fn_signature(it) == it.modifiers = {}

type_is_path(ty, segments) ==
    /\ ty.node = "Path" /\ ~ty.qself
    /\ Len(ty.segments) = Len(segments)
    /\ \A i \in 1..Len(segments) : ty.segments[i] = segments[i]

\* Some((first.pat, rest)) when the first argument is typed 'name::Context';
\* rest is Ok when all the other arguments are typed
parse_inputs(inputs, name) ==
    IF Len(inputs) >= 1 /\ inputs[1].typed /\ type_is_path(inputs[1].ty, <<name, "Context">>)
    THEN [some |-> TRUE,
          rest_ok |-> \A i \in 2..Len(inputs) : inputs[i].typed,
          rest |-> SubSeq(inputs, 2, Len(inputs))]
    ELSE [some |-> FALSE, rest_ok |-> FALSE, rest |-> <<>>]

path_is_generator(b) ==
    /\ b.ident = "Generator"
    /\ Len(b.args) = 2
    /\ b.args[1].ident = "Yield" /\ b.args[1].ty.node = "Tuple" /\ b.args[1].ty.elems = 0
    /\ b.args[2].ident = "Return" /\ b.args[2].ty.node = "Never"

\* a plausible slip: the test of type_is_bottom (the never type) folded in
type_is_unit_or_bottom(ty) ==
    IF ty.kind = "Type"
    THEN (ty.ty.node = "Tuple" /\ ty.ty.elems = 0) \/ ty.ty.node = "Never"
    ELSE TRUE

type_is_unit(ty) ==
    IF ty.kind = "Type"
    THEN ty.ty.node = "Tuple" /\ ty.ty.elems = 0
    ELSE TRUE

type_is_generator(ty) ==
    /\ ty.kind = "Type"
    /\ ty.ty.node = "ImplTrait"
    /\ Len(ty.ty.bounds) = 1
    /\ path_is_generator(ty.ty.bounds[1])
    /\ ty.ty.bounds[1].plain

----------------------------------------------------------------------------
(* Entity parsers *)

\* Local::parse: the map of the locals, keyed by name
Local_parse(locals) ==
    [ok |-> TRUE, err |-> "", val |-> [i \in 1..Len(locals) |-> locals[i].ident]]

\* a plausible slip: the reserved-name test is left out
HardwareTask_parse_no_reserved(args, it) ==
    LET valid_signature ==
            /\ check_fn_signature(it)
            /\ Len(it.inputs) = 1
            /\ (type_is_unit(it.output) \/ type_is_generator(it.output))
        name == it.ident
        inp == parse_inputs(it.inputs, name)
        ex == extract_locals(it.stmts)
    IN  IF valid_signature /\ inp.some /\ inp.rest_ok /\ inp.rest = <<>>
        THEN IF ~ex.ok
             THEN [ok |-> FALSE, err |-> ex.err, val |-> <<>>]
             ELSE [ok |-> TRUE, err |-> "",
                   val |-> [args |-> args,
                            is_generator |-> type_is_generator(it.output),
                            locals |-> Local_parse(ex.locals).val]]
        ELSE [ok |-> FALSE, err |-> ErrTaskSignature(name), val |-> <<>>]

\* parse/hardware_task.rs
HardwareTask_parse(args, it) ==
    LET valid_signature ==
            /\ check_fn_signature(it)
            /\ Len(it.inputs) = 1
            /\ (type_is_unit(it.output) \/ type_is_generator(it.output))
        name == it.ident
        inp == parse_inputs(it.inputs, name)
        ex == extract_locals(it.stmts)
    IN  IF name = "init" \/ name = "idle"
        THEN [ok |-> FALSE, err |-> ErrReserved, val |-> <<>>]
        ELSE IF valid_signature /\ inp.some /\ inp.rest_ok /\ inp.rest = <<>>
        THEN IF ~ex.ok
             THEN [ok |-> FALSE, err |-> ex.err, val |-> <<>>]
             ELSE [ok |-> TRUE, err |-> "",
                   val |-> [args |-> args,
                            is_generator |-> type_is_generator(it.output),
                            locals |-> Local_parse(ex.locals).val]]
        ELSE [ok |-> FALSE, err |-> ErrTaskSignature(name), val |-> <<>>]

\* SoftwareTask::parse: as the hardware task, with trailing typed inputs allowed
SoftwareTask_parse(args, it) ==
    LET valid_signature == check_fn_signature(it) /\ type_is_unit(it.output)
        name == it.ident
        inp == parse_inputs(it.inputs, name)
        ex == extract_locals(it.stmts)
    IN  IF name = "init" \/ name = "idle"
        THEN [ok |-> FALSE, err |-> ErrReserved, val |-> <<>>]
        ELSE IF valid_signature /\ inp.some /\ inp.rest_ok
        THEN IF ~ex.ok
             THEN [ok |-> FALSE, err |-> ex.err, val |-> <<>>]
             ELSE [ok |-> TRUE, err |-> "",
                   val |-> [args |-> args,
                            inputs |-> Len(inp.rest),
                            locals |-> Local_parse(ex.locals).val]]
        ELSE [ok |-> FALSE, err |-> ErrTaskSignature(name), val |-> <<>>]

\* Init::parse and Idle::parse: signature, context argument, leading locals
Init_parse(args, it) ==
    LET inp == parse_inputs(it.inputs, it.ident)
        ex == extract_locals(it.stmts)
    IN  IF check_fn_signature(it) /\ inp.some /\ inp.rest_ok /\ inp.rest = <<>>
        THEN IF ~ex.ok
             THEN [ok |-> FALSE, err |-> ex.err, val |-> <<>>]
             ELSE [ok |-> TRUE, err |-> "",
                   val |-> [name |-> it.ident, locals |-> Local_parse(ex.locals).val]]
        ELSE [ok |-> FALSE, err |-> ErrSignature, val |-> <<>>]

Idle_parse(args, it) == Init_parse(args, it)

\* InitArgs::parse and IdleArgs::parse
InitArgs_parse(tokens) ==
    IF tokens.valid
    THEN [ok |-> TRUE, err |-> "", val |-> "args"]
    ELSE [ok |-> FALSE, err |-> ErrArgs, val |-> "-"]

IdleArgs_parse(tokens) == InitArgs_parse(tokens)

\* crate::parse::task_args: Left(HardwareTaskArgs) with 'binds', Right(SoftwareTaskArgs) without
task_args(tokens) ==
    IF ~tokens.valid
    THEN [ok |-> FALSE, err |-> ErrArgs, either |-> "-", args |-> [binds |-> "None"]]
    ELSE IF tokens.binds # "None"
         THEN [ok |-> TRUE, err |-> "", either |-> "Left", args |-> [binds |-> tokens.binds]]
         ELSE [ok |-> TRUE, err |-> "", either |-> "Right", args |-> [binds |-> "None"]]

\* LateResource::parse on a field of the resources struct
LateResource_parse(field) ==
    IF field.ty_ok
    THEN [ok |-> TRUE, err |-> "", val |-> [attrs |-> field.attrs]]
    ELSE [ok |-> FALSE, err |-> ErrField, val |-> <<>>]

\* ExternInterrupt::parse on a foreign function
ExternInterrupt_parse(it) ==
    IF check_foreign_fn_signature(it)
    THEN [ok |-> TRUE, err |-> "", ident |-> it.ident, val |-> [attrs |-> it.attrs]]
    ELSE [ok |-> FALSE, err |-> ErrSignature, ident |-> it.ident, val |-> <<>>]

----------------------------------------------------------------------------
(* parse/app.rs: App::parse *)

\* a plausible slip: the suffix of an integer is not looked at
custom_value_any_int(ts, j) ==
    IF j > Len(ts) THEN [ok |-> FALSE, err |-> ErrExpected("literal"), val |-> CustomBool(FALSE)]
    ELSE IF ts[j].kind \in {"Ident", "Path"}
    THEN [ok |-> TRUE, err |-> "", val |-> CustomPath(ts[j].text)]
    ELSE IF ts[j].kind = "Bool"
    THEN [ok |-> TRUE, err |-> "", val |-> CustomBool(ts[j].text = "true")]
    ELSE IF ts[j].kind = "Int"
    THEN [ok |-> TRUE, err |-> "", val |-> CustomUInt(ts[j].text)]
    ELSE IF ts[j].kind = "Str"
    THEN [ok |-> FALSE, err |-> ErrArgValue, val |-> CustomBool(FALSE)]
    ELSE [ok |-> FALSE, err |-> ErrExpected("literal"), val |-> CustomBool(FALSE)]

\* the value of an argument: a path if the tokens parse as one ('true' and
\* 'false' do not), a literal otherwise
custom_value(ts, j) ==
    IF j > Len(ts) THEN [ok |-> FALSE, err |-> ErrExpected("literal"), val |-> CustomBool(FALSE)]
    ELSE IF ts[j].kind \in {"Ident", "Path"}
    THEN [ok |-> TRUE, err |-> "", val |-> CustomPath(ts[j].text)]
    ELSE IF ts[j].kind = "Bool"
    THEN [ok |-> TRUE, err |-> "", val |-> CustomBool(ts[j].text = "true")]
    ELSE IF ts[j].kind = "Int"
    THEN IF ts[j].suffix = ""
         THEN [ok |-> TRUE, err |-> "", val |-> CustomUInt(ts[j].text)]
         ELSE [ok |-> FALSE, err |-> ErrIntSuffix, val |-> CustomBool(FALSE)]
    ELSE IF ts[j].kind = "Str"
    THEN [ok |-> FALSE, err |-> ErrArgValue, val |-> CustomBool(FALSE)]
    ELSE [ok |-> FALSE, err |-> ErrExpected("literal"), val |-> CustomBool(FALSE)]

RECURSIVE AppArgs_parse_loop(_, _, _)
AppArgs_parse_loop(ts, i, custom) ==
    LET fail(msg) == [ok |-> FALSE, err |-> msg, custom |-> <<>>]
        ident == ts[i].text
        v == custom_value(ts, i + 2)
        inserted == insert(custom, ident, v.val)
    IN  IF i > Len(ts) THEN [ok |-> TRUE, err |-> "", custom |-> custom]
        ELSE IF ts[i].kind # "Ident" THEN fail(ErrExpected("identifier"))
        ELSE IF i + 1 > Len(ts) \/ ts[i + 1].kind # "Eq" THEN fail(ErrExpected("'='"))
        ELSE IF contains_key(custom, ident) THEN fail(ErrArgTwice)
        ELSE IF ~v.ok THEN fail(v.err)
        ELSE IF i + 3 > Len(ts) THEN [ok |-> TRUE, err |-> "", custom |-> inserted]
        ELSE IF ts[i + 3].kind # "Comma" THEN fail(ErrExpected("','"))
        ELSE AppArgs_parse_loop(ts, i + 4, inserted)

\* AppArgs::parse
AppArgs_parse(tokens) == AppArgs_parse_loop(tokens, 1, <<>>)

check_attr(attr) ==
    IF attr_eq(attr, "resources") THEN "Resources"
    ELSE IF attr_eq(attr, "init") THEN "Init"
    ELSE IF attr_eq(attr, "idle") THEN "Idle"
    ELSE IF attr_eq(attr, "task") THEN "Task"
    ELSE IF attr_eq(attr, "dispatch") THEN "Dispatch"
    ELSE "None"

\* attrs.iter().position(..): index of the first recognized attribute, 0 for None
first_recognized(attrs) ==
    IF \E i \in 1..Len(attrs) : check_attr(attrs[i]) # "None"
    THEN CHOOSE i \in 1..Len(attrs) :
            /\ check_attr(attrs[i]) # "None"
            /\ \A j \in 1..(i - 1) : check_attr(attrs[j]) = "None"
    ELSE 0

NoneAttr == [style |-> "None", path |-> <<>>, tokens |-> NoTokens]

\* a plausible slip: the first match is returned and the rest is not looked at
parse_attr_first_match(attrs) ==
    LET e == first_recognized(attrs) IN
    IF e = 0
    THEN [panic |-> FALSE, kind |-> "None", attr |-> NoneAttr, attrs |-> attrs]
    ELSE [panic |-> FALSE, kind |-> check_attr(attrs[e]), attr |-> attrs[e],
          attrs |-> Remove(attrs, e)]

\* the first pass of the loop removes the first recognized attribute; a pass
\* that meets a recognized attribute while r.0 is set hits unimplemented!()
parse_attr(attrs) ==
    LET e == first_recognized(attrs) IN
    IF e = 0
    THEN [panic |-> FALSE, kind |-> "None", attr |-> NoneAttr, attrs |-> attrs]
    ELSE IF first_recognized(Remove(attrs, e)) # 0
         THEN [panic |-> TRUE, kind |-> check_attr(attrs[e]), attr |-> NoneAttr,
               attrs |-> Remove(attrs, e)]
         ELSE [panic |-> FALSE, kind |-> check_attr(attrs[e]), attr |-> attrs[e],
               attrs |-> Remove(attrs, e)]

\* the accumulators of one call of App::parse, as a record
Cur ==
    [result |-> result, inits |-> inits, idles |-> idles,
     late_resources |-> late_resources, resources |-> resources,
     resource_struct |-> resource_struct,
     hardware_tasks |-> hardware_tasks, software_tasks |-> software_tasks,
     user_imports |-> user_imports, user_code |-> user_code,
     extern_interrupts |-> extern_interrupts,
     seen_idents |-> seen_idents, bindings |-> bindings]

\* return Err(parse::Error::new(span, msg))
Err(st, msg) == [st EXCEPT !.result = msg]

\* a plausible slip: the binding is recorded without looking it up first
check_binding_no_lookup(st, ident) == [st EXCEPT !.bindings = @ \cup {ident}]

check_binding(st, ident) ==
    IF ident \in st.bindings
    THEN Err(st, ErrBinding)
    ELSE [st EXCEPT !.bindings = @ \cup {ident}]

\* a plausible slip: the name is recorded without looking it up first
check_ident_no_lookup(st, ident) == [st EXCEPT !.seen_idents = @ \cup {ident}]

check_ident(st, ident) ==
    IF ident \in st.seen_idents
    THEN Err(st, ErrIdentUsed)
    ELSE [st EXCEPT !.seen_idents = @ \cup {ident}]

\* a plausible slip: a second init function replaces nothing and is pushed as well
init_arm_no_limit(st, it, init) ==
    LET s1 == check_ident(st, it.ident)
        args == InitArgs_parse(init.tokens)
        r == Init_parse(args.val, it)
    IN  IF s1.result # "running" THEN s1
        ELSE IF ~args.ok THEN Err(s1, args.err)
        ELSE IF ~r.ok THEN Err(s1, r.err)
        ELSE [s1 EXCEPT !.inits = Append(@, r.val)]

\* the arm (Some(AppAttribute::Init), Some(init))
init_arm(st, it, init) ==
    LET s1 == check_ident(st, it.ident)
        args == InitArgs_parse(init.tokens)
        r == Init_parse(args.val, it)
    IN  IF st.inits # <<>> THEN Err(st, ErrInitTwice)
        ELSE IF s1.result # "running" THEN s1
        ELSE IF ~args.ok THEN Err(s1, args.err)
        ELSE IF ~r.ok THEN Err(s1, r.err)
        ELSE [s1 EXCEPT !.inits = Append(@, r.val)]

\* the arm (Some(AppAttribute::Idle), Some(idle))
idle_arm(st, it, idle) ==
    LET s1 == check_ident(st, it.ident)
        args == IdleArgs_parse(idle.tokens)
        r == Idle_parse(args.val, it)
    IN  IF st.idles # <<>> THEN Err(st, ErrIdleTwice)
        ELSE IF s1.result # "running" THEN s1
        ELSE IF ~args.ok THEN Err(s1, args.err)
        ELSE IF ~r.ok THEN Err(s1, r.err)
        ELSE [s1 EXCEPT !.idles = Append(@, r.val)]

\* a plausible slip: the name of a hardware task is not recorded
hardware_arm_no_ident(st, it, args) ==
    LET s1 == check_binding(st, args.binds)
        r == HardwareTask_parse(args, it)
    IN  IF s1.result # "running" THEN s1
        ELSE IF ~r.ok THEN Err(s1, r.err)
        ELSE [s1 EXCEPT !.hardware_tasks = insert(@, it.ident, r.val)]

\* the arm Either::Left(args) of the task arm
hardware_arm(st, it, args) ==
    LET s1 == check_binding(st, args.binds)
        s2 == check_ident(s1, it.ident)
        r == HardwareTask_parse(args, it)
    IN  IF s1.result # "running" THEN s1
        ELSE IF s2.result # "running" THEN s2
        ELSE IF ~r.ok THEN Err(s2, r.err)
        ELSE [s2 EXCEPT !.hardware_tasks = insert(@, it.ident, r.val)]

\* the arm Either::Right(args) of the task arm
software_arm(st, it, args) ==
    LET s1 == check_ident(st, it.ident)
        r == SoftwareTask_parse(args, it)
    IN  IF s1.result # "running" THEN s1
        ELSE IF ~r.ok THEN Err(s1, r.err)
        ELSE [s1 EXCEPT !.software_tasks = insert(@, it.ident, r.val)]

\* the arm (Some(AppAttribute::Task), Some(task))
task_arm(st, it, task) ==
    LET ta == task_args(task.tokens) IN
    IF contains_key(st.hardware_tasks, it.ident) \/ contains_key(st.software_tasks, it.ident)
    THEN Err(st, ErrTaskTwice)
    ELSE IF ~ta.ok THEN Err(st, ta.err)
    ELSE IF ta.either = "Left" THEN hardware_arm(st, it, ta.args)
    ELSE software_arm(st, it, ta.args)

\* the arm Item::Fn
item_fn(st, it0) ==
    LET pa == parse_attr(it0.attrs)
        it == [it0 EXCEPT !.attrs = pa.attrs]
    IN  IF pa.panic THEN Err(st, "panic")
        ELSE IF pa.kind = "Init" THEN init_arm(st, it, pa.attr)
        ELSE IF pa.kind = "Idle" THEN idle_arm(st, it, pa.attr)
        ELSE IF pa.kind = "Task" THEN task_arm(st, it, pa.attr)
        ELSE Err(st, ErrMisplaced)

\* field.attrs.iter().position(|attr| attr_eq(attr, "init")), 0 for None
init_position(attrs) ==
    IF \E i \in 1..Len(attrs) : attr_eq(attrs[i], "init")
    THEN CHOOSE i \in 1..Len(attrs) :
            /\ attr_eq(attrs[i], "init")
            /\ \A j \in 1..(i - 1) : ~attr_eq(attrs[j], "init")
    ELSE 0

\* a plausible slip: only the table the field would go to is looked up
resource_listed_same_table(st, field) ==
    IF init_position(field.attrs) # 0
    THEN contains_key(st.resources, field.ident)
    ELSE contains_key(st.late_resources, field.ident)

\* late_resources.contains_key(ident) || resources.contains_key(ident)
resource_listed(st, field) ==
    contains_key(st.late_resources, field.ident) \/ contains_key(st.resources, field.ident)

\* the loop over the named fields of a resources struct, from field i on
RECURSIVE fields_loop(_, _, _)
fields_loop(st, fields, i) ==
    IF i > Len(fields) THEN st
    ELSE LET field == fields[i]
             p == init_position(field.attrs)
             rest == [field EXCEPT !.attrs = Remove(@, p)]
         IN  IF resource_listed(st, field)
             THEN Err(st, ErrResourceTwice)
             ELSE IF p # 0
             THEN LET late == LateResource_parse(rest) IN
                  IF ~late.ok THEN Err(st, late.err)
                  ELSE IF ~field.attrs[p].tokens.valid THEN Err(st, ErrField)
                  ELSE fields_loop(
                         [st EXCEPT !.resources =
                              insert(@, field.ident, [late |-> late.val, expr |-> "expr"])],
                         fields, i + 1)
             ELSE LET late == LateResource_parse(field) IN
                  IF ~late.ok THEN Err(st, late.err)
                  ELSE fields_loop(
                         [st EXCEPT !.late_resources = insert(@, field.ident, late.val)],
                         fields, i + 1)

\* the fields as the loop leaves them: the 'init' attribute removed
fields_after(fields) ==
    [i \in 1..Len(fields) |->
        IF init_position(fields[i].attrs) # 0
        THEN [fields[i] EXCEPT !.attrs = Remove(@, init_position(fields[i].attrs))]
        ELSE fields[i]]

\* the arm Item::Struct
item_struct(st, it0) ==
    LET pa == parse_attr(it0.attrs)
        struct_item == [it0 EXCEPT !.attrs = pa.attrs]
        s1 == fields_loop(st, struct_item.fields.named, 1)
    IN  IF pa.panic THEN Err(st, "panic")
        ELSE IF pa.kind = "Resources"
        THEN IF contains_key(st.resource_struct, struct_item.ident)
             THEN Err(st, ErrResStructTwice)
             ELSE IF struct_item.vis # "Inherited"
             THEN Err(st, ErrVisibility)
             ELSE IF struct_item.fields.kind = "Named"
             THEN IF s1.result # "running" THEN s1
                  ELSE [s1 EXCEPT !.resource_struct =
                           insert(@, struct_item.ident,
                                  [struct_item EXCEPT !.fields.named = fields_after(@)])]
             ELSE Err(st, ErrNamedFields)
        ELSE [st EXCEPT !.user_code = Append(@, struct_item)]

\* a plausible slip: the entry is inserted whether or not the name is in the pool
extern_entry_overwrite(st, ident, extern_interrupt) ==
    [st EXCEPT !.extern_interrupts = insert(@, ident, extern_interrupt)]

\* match extern_interrupts.entry(ident)
extern_entry(st, ident, extern_interrupt) ==
    IF contains_key(st.extern_interrupts, ident)
    THEN Err(st, ErrExternTwice)
    ELSE [st EXCEPT !.extern_interrupts = insert(@, ident, extern_interrupt)]

\* a plausible slip: the setting is not consulted
extern_enabled_always(sett) == TRUE

\* if settings.parse_extern_interrupt
extern_enabled(sett) == sett.parse_extern_interrupt

\* the loop over the items of a foreign block, from item i on
RECURSIVE foreign_loop(_, _, _, _)
foreign_loop(st, sett, items, i) ==
    IF i > Len(items) THEN st
    ELSE LET fi == items[i]
             r == ExternInterrupt_parse(fi)
         IN  IF fi.node = "Fn"
             THEN IF extern_enabled(sett)
                  THEN IF ~r.ok THEN Err(st, r.err)
                       ELSE LET s1 == extern_entry(st, r.ident, r.val) IN
                            IF s1.result # "running" THEN s1
                            ELSE foreign_loop(s1, sett, items, i + 1)
                  ELSE Err(st, ErrMisplaced)
             ELSE Err(st, "panic")

\* the arm Item::ForeignMod
item_foreign_mod(st, sett, mod_) == foreign_loop(st, sett, mod_.items, 1)

\* the arm Item::Use
item_use(st, itemuse_) == [st EXCEPT !.user_imports = Append(@, itemuse_)]

\* the arm '_'
item_other(st, it) == [st EXCEPT !.user_code = Append(@, it)]

----------------------------------------------------------------------------
(* The declarations a module may hold *)

Names == {"init", "idle", "foo", "bar"}

Interrupts == {"EXTI0", "EXTI1"}

ExternNames == {"SSI0", "QEI0"}

StructNames == {"Resources", "Shared"}

GoodTokens == [valid |-> TRUE, binds |-> "None"]

BadTokens == [valid |-> FALSE, binds |-> "None"]

TaskTokens == {GoodTokens, BadTokens} \cup {[valid |-> TRUE, binds |-> b] : b \in Interrupts}

Fn(attrs, ident, shape) ==
    [kind |-> "Fn", attrs |-> attrs, ident |-> ident, modifiers |-> shape.modifiers,
     inputs |-> shape.inputs, output |-> shape.output, stmts |-> shape.stmts]

Context(ident) == Typed(TyPath(<<ident, "Context">>))

GoodBody == <<StaticStmt(TRUE, "X"), OtherStmt("Expr")>>

GoodShape(ident) ==
    [modifiers |-> {}, inputs |-> <<Context(ident)>>, output |-> RetDefault, stmts |-> GoodBody]

\* signatures and bodies: the plain handler, the three return shapes of a
\* task, a 'pub' handler, a second argument, a wrong context type, a repeated local
FnShapes(ident) ==
    { GoodShape(ident),
      [GoodShape(ident) EXCEPT !.output = RetType(TyNever)],
      [GoodShape(ident) EXCEPT !.output = RetType(TyImplTrait(<<GeneratorBound>>))],
      [GoodShape(ident) EXCEPT !.output = RetType(TyPath(<<"u32">>))],
      [GoodShape(ident) EXCEPT !.modifiers = {"pub"}],
      [GoodShape(ident) EXCEPT !.inputs = <<Context(ident), Typed(TyPath(<<"u32">>))>>],
      [GoodShape(ident) EXCEPT !.inputs = <<Context("other")>>],
      [GoodShape(ident) EXCEPT !.stmts = <<StaticStmt(TRUE, "X"), StaticStmt(TRUE, "X")>>] }

FnItems ==
    {Fn(<<Attr("task", t)>>, n, sh) : <<n, t, sh>> \in
        {<<n, t, sh>> \in Names \X TaskTokens \X UNION {FnShapes(m) : m \in Names} :
            sh \in FnShapes(n)}}
    \cup {Fn(<<Attr(k, t)>>, n, sh) : <<k, n, t, sh>> \in
        {<<k, n, t, sh>> \in {"init", "idle"} \X Names \X {GoodTokens, BadTokens}
                               \X UNION {FnShapes(m) : m \in Names} :
            sh \in {GoodShape(n), [GoodShape(n) EXCEPT !.modifiers = {"pub"}]}}}
    \cup {Fn(attrs, "foo", GoodShape("foo")) : attrs \in
        { <<>>,
          <<Attr("inline", GoodTokens)>>,
          <<Attr("resources", GoodTokens)>>,
          <<Attr("dispatch", GoodTokens)>>,
          <<Attr("inline", GoodTokens), Attr("task", GoodTokens)>>,
          <<Attr("task", GoodTokens), Attr("init", GoodTokens)>>,
          <<Attr("init", GoodTokens), Attr("init", GoodTokens)>> }}

Field(ident, attrs, ty_ok) == [ident |-> ident, attrs |-> attrs, ty_ok |-> ty_ok]

Late(ident) == Field(ident, <<>>, TRUE)

Early(ident) == Field(ident, <<Attr("init", GoodTokens)>>, TRUE)

Struct(attrs, ident, vis, kind, fields) ==
    [kind |-> "Struct", attrs |-> attrs, ident |-> ident, vis |-> vis,
     fields |-> [kind |-> kind, named |-> fields]]

FieldLists ==
    { <<>>, <<Late("a")>>, <<Early("a")>>, <<Late("b")>>, <<Early("b")>>,
      <<Late("a"), Early("b")>>, <<Late("a"), Late("a")>>, <<Early("a"), Late("a")>>,
      <<Late("a"), Early("a")>>, <<Early("b"), Early("b")>>,
      <<Field("a", <<>>, FALSE)>>,
      <<Field("a", <<Attr("init", GoodTokens)>>, FALSE)>>,
      <<Late("b"), Field("a", <<Attr("init", BadTokens)>>, TRUE)>> }

StructItems ==
    {Struct(<<Attr("resources", GoodTokens)>>, n, "Inherited", "Named", fl) :
        n \in StructNames, fl \in FieldLists}
    \cup { Struct(<<Attr("resources", GoodTokens)>>, "Resources", "Public", "Named", <<Late("a")>>),
           Struct(<<Attr("resources", GoodTokens)>>, "Resources", "Inherited", "Unnamed", <<>>),
           Struct(<<>>, "Resources", "Inherited", "Named", <<Late("a")>>),
           Struct(<<Attr("derive", GoodTokens)>>, "Data", "Public", "Named", <<Late("a")>>),
           Struct(<<Attr("init", GoodTokens)>>, "Data", "Inherited", "Named", <<Late("a")>>),
           Struct(<<Attr("derive", GoodTokens), Attr("task", GoodTokens), Attr("doc", GoodTokens)>>,
                  "Data", "Inherited", "Named", <<Late("a")>>),
           Struct(<<Attr("resources", GoodTokens), Attr("task", GoodTokens)>>,
                  "Resources", "Inherited", "Named", <<Late("a")>>) }

ForeignFn(ident, modifiers) ==
    [node |-> "Fn", ident |-> ident, modifiers |-> modifiers, attrs |-> <<>>]

ForeignStatic(ident) ==
    [node |-> "Static", ident |-> ident, modifiers |-> {}, attrs |-> <<>>]

ForeignItems ==
    {ForeignFn(n, {}) : n \in ExternNames}
    \cup {ForeignFn("SSI0", {"pub"}), ForeignStatic("SSI0")}

ForeignMods == {[kind |-> "ForeignMod", items |-> l] : l \in SeqsUpTo(ForeignItems, 2)}

UseItems == {[kind |-> "Use", ident |-> n] : n \in {"core", "heapless"}}

OtherItems ==
    {[kind |-> k, attrs |-> a, ident |-> "K"] :
        k \in {"Const", "Enum"},
        a \in {<<>>, <<Attr("task", GoodTokens)>>,
               <<Attr("task", GoodTokens), Attr("init", GoodTokens)>>}}

----------------------------------------------------------------------------
(* One call of App::parse *)

Init ==
    /\ settings \in [parse_extern_interrupt : BOOLEAN]
    /\ pos = 0
    /\ item = NoItem
    /\ result = "running"
    /\ inits = <<>> /\ idles = <<>>
    /\ late_resources = <<>> /\ resources = <<>> /\ resource_struct = <<>>
    /\ hardware_tasks = <<>> /\ software_tasks = <<>>
    /\ user_imports = <<>> /\ user_code = <<>>
    /\ extern_interrupts = <<>>
    /\ seen_idents = {} /\ bindings = {}
    /\ arg = NoCall
    /\ ret = NoRet

\* a plausible slip: the loop goes on after a declaration has failed
loop_continues_after_error == pos < MaxItems

\* 'for mut item in input.items' has a next declaration and no arm has returned
loop_continues == result = "running" /\ pos < MaxItems

\* the loop body has run on declaration it and left the accumulators st
Commit(it, st) ==
    /\ pos' = pos + 1
    /\ item' = it
    /\ result' = st.result
    /\ inits' = st.inits /\ idles' = st.idles
    /\ late_resources' = st.late_resources /\ resources' = st.resources
    /\ resource_struct' = st.resource_struct
    /\ hardware_tasks' = st.hardware_tasks /\ software_tasks' = st.software_tasks
    /\ user_imports' = st.user_imports /\ user_code' = st.user_code
    /\ extern_interrupts' = st.extern_interrupts
    /\ seen_idents' = st.seen_idents /\ bindings' = st.bindings
    /\ UNCHANGED <<settings, arg, ret>>

VisitFn ==
    /\ loop_continues
    /\ \E it \in FnItems : Commit(it, item_fn([Cur EXCEPT !.result = "running"], it))

VisitStruct ==
    /\ loop_continues
    /\ \E it \in StructItems : Commit(it, item_struct([Cur EXCEPT !.result = "running"], it))

VisitForeignMod ==
    /\ loop_continues
    /\ \E it \in ForeignMods :
          Commit(it, item_foreign_mod([Cur EXCEPT !.result = "running"], settings, it))

VisitUse ==
    /\ loop_continues
    /\ \E it \in UseItems : Commit(it, item_use([Cur EXCEPT !.result = "running"], it))

VisitOther ==
    /\ loop_continues
    /\ \E it \in OtherItems : Commit(it, item_other([Cur EXCEPT !.result = "running"], it))

\* the loop is over: Ok(App { .. })
Return ==
    /\ result = "running"
    /\ result' = "Ok"
    /\ UNCHANGED <<settings, pos, item, inits, idles, late_resources, resources,
                   resource_struct, hardware_tasks, software_tasks, user_imports,
                   user_code, extern_interrupts, seen_idents, bindings, arg, ret>>

Next == VisitFn \/ VisitStruct \/ VisitForeignMod \/ VisitUse \/ VisitOther \/ Return

Spec == Init /\ [][Next]_vars

----------------------------------------------------------------------------
(* The helpers of parse/util.rs called on their own *)

IdentLists == SeqsUpTo(ResNames, MaxList)

AppIdle ==
    /\ settings = [parse_extern_interrupt |-> FALSE]
    /\ pos = 0
    /\ item = NoItem
    /\ result = "-"
    /\ inits = <<>> /\ idles = <<>>
    /\ late_resources = <<>> /\ resources = <<>> /\ resource_struct = <<>>
    /\ hardware_tasks = <<>> /\ software_tasks = <<>>
    /\ user_imports = <<>> /\ user_code = <<>>
    /\ extern_interrupts = <<>>
    /\ seen_idents = {} /\ bindings = {}

\* bounds of a trait object: the generator bound and its near misses
TraitBounds ==
    { GeneratorBound,
      [GeneratorBound EXCEPT !.plain = FALSE],
      [GeneratorBound EXCEPT !.ident = "Iterator"],
      [GeneratorBound EXCEPT !.args = <<[ident |-> "Yield", ty |-> TyTuple(0)]>>],
      [GeneratorBound EXCEPT !.args[1].ty = TyPath(<<"u32">>)],
      [GeneratorBound EXCEPT !.args[2].ty = TyTuple(0)],
      [GeneratorBound EXCEPT !.args = <<@[2], @[1]>>] }

\* the return types a task handler is declared with
TaskReturns ==
    {RetDefault, RetType(TyTuple(0)), RetType(TyTuple(1)), RetType(TyNever),
     RetType(TyPath(<<"u32">>)), RetType(TyImplTrait(<<>>)),
     RetType(TyImplTrait(<<GeneratorBound, GeneratorBound>>))}
    \cup {RetType(TyImplTrait(<<b>>)) : b \in TraitBounds}

\* task handlers: every signature and body of FnShapes with every return type
HwTaskItems ==
    {Fn(<<>>, n, [sh EXCEPT !.output = o]) : <<n, sh, o>> \in
        {<<n, sh, o>> \in {"foo", "idle"} \X (UNION {FnShapes(m) : m \in Names}) \X TaskReturns :
            sh \in FnShapes(n)}}

\* the number of cores of the settings
CoreCounts == {0, 1, 2, 4, U8Max}

\* the integer literals of a 'core' attribute
CoreLits == {LitInt(v, sfx) : <<v, sfx>> \in {0, 1, 3, 4, U8Max, U8Max + 1} \X {"", "u8"}}

\* attributes of an item that names its core
CoreAttrSet ==
    {CoreAttr(TRUE, l) : l \in CoreLits}
    \cup {CoreAttr(FALSE, LitInt(0, "")), Attr("inline", NoTokens), Attr("shared", NoTokens)}

CoreAttrLists == SeqsUpTo(CoreAttrSet, MaxAttrs)

\* the keys and the values of the arguments of '#[app]'
ArgKeys == {"peripherals", "device"}

ArgValues ==
    {Tok("Ident", "lm3s6965", ""), Tok("Path", "lm3s6965::Peripherals", ""),
     Tok("Bool", "true", ""), Tok("Bool", "false", ""),
     Tok("Int", "1", ""), Tok("Int", "1", "u8"), Tok("Str", "x", "")}

ArgEntries == {[key |-> k, value |-> v] : <<k, v>> \in ArgKeys \X ArgValues}

\* what stands before the first entry, between two entries, after the last
Separators == {<<>>, <<Comma>>, <<Comma, Comma>>}

ArgInputs ==
    {[entries |-> es, lead |-> l, sep |-> sp, trail |-> t] : <<es, l, sp, t>> \in
        SeqsUpTo(ArgEntries, MaxArgs) \X {<<>>, <<Comma>>} \X Separators \X Separators}

\* the token stream of the entries
RECURSIVE EntryTokens(_, _, _)
EntryTokens(es, i, sep) ==
    IF i > Len(es) THEN <<>>
    ELSE (IF i > 1 THEN sep ELSE <<>>)
         \o <<Tok("Ident", es[i].key, ""), Eq, es[i].value>>
         \o EntryTokens(es, i + 1, sep)

TokenStream(in) == in.lead \o EntryTokens(in.entries, 1, in.sep) \o in.trail

InitUtil ==
    /\ AppIdle
    /\ arg \in {[fn |-> "extract_locals", input |-> s] : s \in SeqsUpTo(StmtSet, MaxStmts)}
          \cup {[fn |-> "parse_resources", input |-> l] : l \in SeqsUpTo(ExprSet, MaxList)}
          \cup {[fn |-> "parse_idents", input |-> l] : l \in IdentLists}
          \cup {[fn |-> "HardwareTask::parse", input |-> it] : it \in HwTaskItems}
          \cup {[fn |-> "AppArgs::parse", input |-> in] : in \in ArgInputs}
          \cup {[fn |-> "parse_core", input |-> [lit |-> l, cores |-> c]] :
                    <<l, c>> \in CoreLits \X CoreCounts}
          \cup {[fn |-> f, input |-> [attrs |-> l, cores |-> c]] :
                    <<f, l, c>> \in {"extract_core", "extract_shared"}
                                      \X CoreAttrLists \X CoreCounts}
    /\ ret = NoRet

CallExtractLocals ==
    /\ arg.fn = "extract_locals" /\ ~ret.done
    /\ ret' = [done |-> TRUE, val |-> extract_locals(arg.input)]
    /\ UNCHANGED <<appvars, arg>>

CallParseResources ==
    /\ arg.fn = "parse_resources" /\ ~ret.done
    /\ ret' = [done |-> TRUE, val |-> parse_resources(arg.input)]
    /\ UNCHANGED <<appvars, arg>>

CallParseIdents ==
    /\ arg.fn = "parse_idents" /\ ~ret.done
    /\ ret' = [done |-> TRUE, val |-> parse_idents(arg.input)]
    /\ UNCHANGED <<appvars, arg>>

CallHardwareTaskParse ==
    /\ arg.fn = "HardwareTask::parse" /\ ~ret.done
    /\ ret' = [done |-> TRUE,
               val |-> HardwareTask_parse([binds |-> "EXTI0"], arg.input)]
    /\ UNCHANGED <<appvars, arg>>

CallParseCore ==
    /\ arg.fn = "parse_core" /\ ~ret.done
    /\ ret' = [done |-> TRUE, val |-> parse_core(arg.input.lit, arg.input.cores)]
    /\ UNCHANGED <<appvars, arg>>

CallExtractCore ==
    /\ arg.fn = "extract_core" /\ ~ret.done
    /\ ret' = [done |-> TRUE, val |-> extract_core(arg.input.attrs, arg.input.cores)]
    /\ UNCHANGED <<appvars, arg>>

CallExtractShared ==
    /\ arg.fn = "extract_shared" /\ ~ret.done
    /\ ret' = [done |-> TRUE, val |-> extract_shared(arg.input.attrs, arg.input.cores)]
    /\ UNCHANGED <<appvars, arg>>

CallAppArgsParse ==
    /\ arg.fn = "AppArgs::parse" /\ ~ret.done
    /\ ret' = [done |-> TRUE, val |-> AppArgs_parse(TokenStream(arg.input))]
    /\ UNCHANGED <<appvars, arg>>

NextUtil ==
    \/ CallExtractLocals
    \/ CallParseResources
    \/ CallParseIdents
    \/ CallHardwareTaskParse
    \/ CallParseCore
    \/ CallExtractCore
    \/ CallExtractShared
    \/ CallAppArgsParse

SpecUtil == InitUtil /\ [][NextUtil]_vars

----------------------------------------------------------------------------
(* C8 *)

IsStaticMut(stmt) == stmt.node = "Item::Static" /\ stmt.mutability = TRUE

\* length of the maximal leading run of 'static mut' items
LeadingRun(stmts) ==
    CHOOSE n \in 0..Len(stmts) :
        /\ \A i \in 1..n : IsStaticMut(stmts[i])
        /\ n = Len(stmts) \/ ~IsStaticMut(stmts[n + 1])

RunHasDuplicate(stmts) ==
    \E i, j \in 1..LeadingRun(stmts) : i # j /\ stmts[i].ident = stmts[j].ident

\* C8: extract_locals returns as locals exactly the maximal leading run of
\* 'static mut' items and as stmts the remaining suffix in order (locals
\* followed by stmts is the input; an immutable static or another statement
\* ends the run; a later 'static mut' stays in stmts), and it fails, with
\* "this local 'static' appears more than once", exactly when two items of
\* the leading run have the same name.
C8_LocalsArePrefix ==
    (arg.fn = "extract_locals" /\ ret.done) =>
        LET stmts == arg.input
            n == LeadingRun(stmts)
            r == ret.val
        IN  /\ r.ok <=> ~RunHasDuplicate(stmts)
            /\ ~r.ok => r.err = ErrLocalTwice
            /\ r.ok => /\ r.locals = SubSeq(stmts, 1, n)
                       /\ r.stmts = SubSeq(stmts, n + 1, Len(stmts))
                       /\ r.locals \o r.stmts = stmts
                       /\ \A i \in 1..Len(r.locals) : IsStaticMut(r.locals[i])
                       /\ r.stmts # <<>> => ~IsStaticMut(r.stmts[1])

\* the body 'static mut X; static X; static mut Y; static mut X' gives the one
\* local X and keeps the immutable static and the later 'static mut's
C8_Witness ==
    /\ arg.fn = "extract_locals" /\ ret.done
    /\ arg.input = <<StaticStmt(TRUE, "X"), StaticStmt(FALSE, "X"),
                     StaticStmt(TRUE, "Y"), StaticStmt(TRUE, "X")>>
    /\ ret.val.ok
    /\ ret.val.locals = <<StaticStmt(TRUE, "X")>>
    /\ Len(ret.val.stmts) = 3

----------------------------------------------------------------------------
(* C9 *)

IsBare(e) ==
    /\ e.node = "Path" /\ ~e.path.leading_colon /\ Len(e.path.segments) = 1
    /\ e.path.segments[1].arguments = "None"

IsSharedRef(e) ==
    /\ e.node = "Reference" /\ e.mutability = FALSE /\ e.inner = "Path"
    /\ ~e.path.leading_colon /\ Len(e.path.segments) = 1
    /\ e.path.segments[1].arguments = "None"

EntryIdent(e) == e.path.segments[1].ident

WellFormedList(list) == \A i \in 1..Len(list) : IsBare(list[i]) \/ IsSharedRef(list[i])

\* the map written back as a list: bare for Exclusive, '&' for Shared
ToList(resmap) ==
    [i \in 1..Len(resmap) |->
        IF resmap[i].val = "Exclusive"
        THEN ExprPath(PlainPath(resmap[i].key))
        ELSE ExprRef(FALSE, "Path", PlainPath(resmap[i].key))]

\* C9: parse_resources maps every bare identifier to Exclusive and every
\* '&identifier' to Shared, in list order; a list naming an identifier twice
\* (with any access modes) is rejected; writing the map back as a list and
\* parsing that list again gives the same map.
C9_AccessRoundTrip ==
    (arg.fn = "parse_resources" /\ ret.done) =>
        LET list == arg.input
            r == ret.val
        IN  /\ r.ok => /\ WellFormedList(list)
                       /\ Len(r.resources) = Len(list)
                       /\ \A i \in 1..Len(list) :
                            /\ r.resources[i].key = EntryIdent(list[i])
                            /\ IsBare(list[i]) => r.resources[i].val = "Exclusive"
                            /\ IsSharedRef(list[i]) => r.resources[i].val = "Shared"
                       /\ parse_resources(ToList(r.resources)) = r
            /\ WellFormedList(list) =>
                 (r.ok <=> \A i, j \in 1..Len(list) :
                              EntryIdent(list[i]) = EntryIdent(list[j]) => i = j)

\* '[a, &b]' parses to {a: Exclusive, b: Shared}
C9_Witness ==
    /\ arg.fn = "parse_resources" /\ ret.done
    /\ arg.input = <<ExprPath(PlainPath("a")), ExprRef(FALSE, "Path", PlainPath("b"))>>
    /\ ret.val.ok
    /\ ret.val.resources = <<[key |-> "a", val |-> "Exclusive"], [key |-> "b", val |-> "Shared"]>>

----------------------------------------------------------------------------
(* Vocabulary of the properties of App::parse *)

RecognizedNames == {"resources", "init", "idle", "task", "dispatch"}

MarkerPositions(it) == {i \in 1..Len(it.attrs) : it.attrs[i].path[1] \in RecognizedNames}

\* the recognized attribute of a declaration that carries exactly one, "-" otherwise
SoleMarker(it) ==
    IF Cardinality(MarkerPositions(it)) = 1
    THEN it.attrs[CHOOSE i \in MarkerPositions(it) : TRUE].path[1]
    ELSE "-"

MarkerTokens(it) == it.attrs[CHOOSE i \in MarkerPositions(it) : TRUE].tokens

\* the returned value is a parse error
IsError(r) == r \notin {"running", "Ok", "panic"}

\* this step is the loop body run on the next declaration, which is of kind k
Visits(k) == result = "running" /\ pos' = pos + 1 /\ item'.kind = k

InitNames == [i \in 1..Len(inits) |-> inits[i].name]

IdleNames == [i \in 1..Len(idles) |-> idles[i].name]

TaskNames == KeySeq(hardware_tasks) \o KeySeq(software_tasks)

EntityNames == InitNames \o IdleNames \o TaskNames

----------------------------------------------------------------------------
(* C1 *)

C1_Distinct == result = "Ok" => NoDup(EntityNames)

C1_Step ==
    /\ (Visits("Fn") /\ SoleMarker(item') = "task" /\ item'.ident \in Range(EntityNames))
          => IsError(result')
    /\ (Visits("Fn") /\ SoleMarker(item') \in {"init", "idle"}
           /\ item'.ident \in Range(TaskNames))
          => IsError(result')

\* C1: in every returned App the names of init, idle, the hardware tasks and
\* the software tasks are pairwise distinct; a task declaration whose name is
\* that of an earlier task, init or idle, and an init or idle declaration
\* whose name is that of an earlier task, makes the parse fail.
C1_OneNamespace == []C1_Distinct /\ [][C1_Step]_vars

\* a task declaration named as the init function stored before it was rejected
C1_Witness ==
    /\ pos = 2 /\ IsError(result)
    /\ item.kind = "Fn" /\ SoleMarker(item) = "task"
    /\ Len(inits) = 1 /\ inits[1].name = item.ident
    /\ item.ident = "foo"

----------------------------------------------------------------------------
(* C2 *)

BindsSeq == [i \in 1..Len(hardware_tasks) |-> hardware_tasks[i].val.args.binds]

C2_Distinct == result = "Ok" => NoDup(BindsSeq)

C2_Step ==
    (/\ Visits("Fn") /\ SoleMarker(item') = "task"
     /\ MarkerTokens(item').valid
     /\ MarkerTokens(item').binds \in Range(BindsSeq)
     /\ item'.ident \notin Range(TaskNames))
        => result' = ErrBinding

\* C2: no returned App has two hardware tasks with the same binds; a task
\* declaration that carries the binds of a stored hardware task of another
\* name makes the parse fail with "a task has already been bound to this
\* interrupt", raised at that second declaration.
C2_BindsDistinct == []C2_Distinct /\ [][C2_Step]_vars

C2_Witness ==
    /\ pos = 2 /\ result = ErrBinding
    /\ item.kind = "Fn" /\ SoleMarker(item) = "task"
    /\ Len(hardware_tasks) = 1
    /\ hardware_tasks[1].val.args.binds = MarkerTokens(item).binds
    /\ hardware_tasks[1].key # item.ident

----------------------------------------------------------------------------
(* C3 *)

\* the field names of the resources structs stored so far, in order
RECURSIVE StoredFieldNames(_)
StoredFieldNames(i) ==
    IF i > Len(resource_struct) THEN <<>>
    ELSE [j \in 1..Len(resource_struct[i].val.fields.named) |->
             resource_struct[i].val.fields.named[j].ident] \o StoredFieldNames(i + 1)

C3_Tables ==
    result \in {"running", "Ok"} =>
        /\ Keys(resources) \cap Keys(late_resources) = {}
        /\ NoDup(KeySeq(resources)) /\ NoDup(KeySeq(late_resources))
        /\ NoDup(StoredFieldNames(1))
        /\ Range(StoredFieldNames(1)) = Keys(resources) \cup Keys(late_resources)

IsResourcesStruct(it) ==
    /\ it.kind = "Struct" /\ SoleMarker(it) = "resources"
    /\ it.vis = "Inherited" /\ it.fields.kind = "Named"

FieldIsValid(f) == f.ty_ok /\ \A i \in 1..Len(f.attrs) : f.attrs[i].tokens.valid

\* field k of the struct is the first field that fails a check, and the check
\* it fails is the one on its name
FirstFailureIsRepeat(it, k, known) ==
    LET fs == it.fields.named IN
    /\ \A j \in 1..(k - 1) :
          /\ FieldIsValid(fs[j])
          /\ fs[j].ident \notin known
          /\ \A h \in 1..(j - 1) : fs[h].ident # fs[j].ident
    /\ fs[k].ident \in known \/ \E h \in 1..(k - 1) : fs[h].ident = fs[k].ident

C3_Step ==
    (/\ Visits("Struct") /\ IsResourcesStruct(item')
     /\ item'.ident \notin Keys(resource_struct))
        => \A k \in 1..Len(item'.fields.named) :
              FirstFailureIsRepeat(item', k, Keys(resources) \cup Keys(late_resources))
                  => result' = ErrResourceTwice

----------------------------------------------------------------------------
(* C4 *)

C4_AtMostOne == Len(inits) <= 1 /\ Len(idles) <= 1

C4_Step ==
    /\ (Visits("Fn") /\ SoleMarker(item') = "init" /\ inits # <<>>)
          => result' = ErrInitTwice
    /\ (Visits("Fn") /\ SoleMarker(item') = "idle" /\ idles # <<>>)
          => result' = ErrIdleTwice

\* C4: inits and idles never hold more than one element; a second init
\* function (a second idle function), whatever its name, makes the parse fail
\* with the "must appear at most once" error.
C4_InitIdleOnce == []C4_AtMostOne /\ [][C4_Step]_vars

\* a second init function of another name was rejected
C4_Witness ==
    /\ pos = 2 /\ result = ErrInitTwice
    /\ Len(inits) = 1 /\ item.kind = "Fn" /\ item.ident # inits[1].name

----------------------------------------------------------------------------
(* C5 *)

IsForeignFn(fi) == fi.node = "Fn" /\ fi.modifiers = {}

\* the items before item k of the block are foreign functions with names that
\* are new to the pool and to the block
CleanBefore(fs, k, pool) ==
    \A j \in 1..(k - 1) :
        /\ IsForeignFn(fs[j])
        /\ fs[j].ident \notin pool
        /\ \A h \in 1..(j - 1) : fs[h].ident # fs[j].ident

C5_Pool == NoDup(KeySeq(extern_interrupts))

C5_Step ==
    (Visits("ForeignMod") /\ settings.parse_extern_interrupt) =>
        LET fs == item'.items
            pool == Keys(extern_interrupts)
        IN  /\ \A k \in 1..Len(fs) :
                 (IsForeignFn(fs[k]) /\ CleanBefore(fs, k, pool)) =>
                     IF fs[k].ident \in pool \/ \E h \in 1..(k - 1) : fs[h].ident = fs[k].ident
                     THEN /\ result' = ErrExternTwice
                          /\ SubSeq(extern_interrupts', 1, Len(extern_interrupts))
                                = extern_interrupts
                     ELSE fs[k].ident \in Keys(extern_interrupts')
            /\ result' = "running" =>
                 KeySeq(extern_interrupts')
                    = KeySeq(extern_interrupts) \o [k \in 1..Len(fs) |-> fs[k].ident]

\* C5: with parse_extern_interrupt enabled every foreign function of every
\* foreign block is added to the pool under its name, and a foreign function
\* whose name is already in the pool, from the same or an earlier block,
\* makes the parse fail with "this extern interrupt is listed more than once"
\* and leaves the earlier entry as it was.
C5_ExternDistinct == []C5_Pool /\ [][C5_Step]_vars

\* the only function of a second foreign block repeats a name of the pool
C5_Witness ==
    /\ settings.parse_extern_interrupt
    /\ pos = 2 /\ result = ErrExternTwice
    /\ item.kind = "ForeignMod" /\ Len(item.items) = 1
    /\ item.items[1].ident \in Keys(extern_interrupts)

----------------------------------------------------------------------------
(* C6 *)

C6_PoolEmpty == ~settings.parse_extern_interrupt => extern_interrupts = <<>>

C6_Step ==
    (Visits("ForeignMod") /\ ~settings.parse_extern_interrupt) =>
        LET fs == item'.items IN
        /\ (\E k \in 1..Len(fs) : fs[k].node = "Fn") => result' \in {ErrMisplaced, "panic"}
        /\ (\E k \in 1..Len(fs) : fs[k].node = "Fn" /\ \A j \in 1..(k - 1) : fs[j].node = "Fn")
              => result' = ErrMisplaced

----------------------------------------------------------------------------
(* C7 *)

C7_Step ==
    /\ pos' # pos => result = "running"
    /\ (result = "running" /\ IsError(result')) => pos' = pos + 1
    /\ IsError(result) => UNCHANGED appvars

\* C7: App::parse is fail-fast in declaration order: an error is returned by
\* the step that takes the first failing declaration, and once it is returned
\* no later declaration is taken and neither the result nor anything else
\* changes, so the result does not depend on the declarations that follow.
C7_FailFast == [][C7_Step]_vars

\* the first declaration failed while the module may hold more declarations
C7_Witness == IsError(result) /\ pos = 1 /\ pos < MaxItems /\ item.kind = "Fn"

----------------------------------------------------------------------------
(* C10 *)

IsReservedTask(it) ==
    it.kind = "Fn" /\ SoleMarker(it) = "task" /\ it.ident \in {"init", "idle"}

\* the claim as stated, in the cases most favourable to it (the arguments of
\* the task parse and its binds is not bound yet)
C10_OriginalStep ==
    (/\ Visits("Fn") /\ IsReservedTask(item')
     /\ MarkerTokens(item').valid
     /\ MarkerTokens(item').binds \notin Range(BindsSeq))
        => result' = ErrReserved

C10_Original == [][C10_OriginalStep]_vars

C10_NoReservedKey == Range(TaskNames) \cap {"init", "idle"} = {}

C10_Step ==
    /\ (Visits("Fn") /\ IsReservedTask(item')) => IsError(result')
    /\ (/\ Visits("Fn") /\ IsReservedTask(item')
        /\ MarkerTokens(item').valid
        /\ MarkerTokens(item').binds \notin Range(BindsSeq)
        /\ item'.ident \notin Range(EntityNames))
           => result' = ErrReserved

\* C10 (amended): a task declaration named init or idle is always rejected
\* and no table of tasks ever has init or idle as a key; the error is "tasks
\* cannot be named 'init' or 'idle'", whatever the signature, when the
\* arguments of the task parse, its binds is not bound yet and no earlier init
\* or idle function has that name; otherwise the error of that earlier check
\* is returned.
C10_ReservedNames == []C10_NoReservedKey /\ [][C10_Step]_vars

\* a hardware task named init with a 'pub' signature gets the reserved-name error
C10_Witness ==
    /\ result = ErrReserved
    /\ IsReservedTask(item) /\ item.ident = "init"
    /\ MarkerTokens(item).binds # "None"
    /\ item.modifiers # {}

----------------------------------------------------------------------------
(* C11 *)

C11_Step ==
    /\ (Visits("Fn") /\ MarkerPositions(item') = {}) => result' = ErrMisplaced
    /\ (Visits("Fn") /\ SoleMarker(item') \in {"resources", "dispatch"})
          => result' = ErrMisplaced
    /\ (Visits("Struct") /\ SoleMarker(item') \in {"init", "idle", "task", "dispatch"})
          => result' = ErrMisplaced

\* C11: a function without a recognized attribute, a function carrying
\* 'resources' or 'dispatch', and a struct carrying 'init', 'idle', 'task' or
\* 'dispatch' make the parse fail with "this item must live outside the
\* '#[app]' module".
C11_Misplaced == [][C11_Step]_vars

----------------------------------------------------------------------------
(* C12 *)

TablesUnchanged ==
    UNCHANGED <<inits, idles, late_resources, resources, resource_struct,
                hardware_tasks, software_tasks, extern_interrupts>>

C12_Step ==
    /\ (Visits("Struct") /\ Cardinality(MarkerPositions(item')) <= 1
           /\ SoleMarker(item') # "resources")
          => /\ result' = "running"
             /\ user_code' = Append(user_code, item')
             /\ user_imports' = user_imports
             /\ TablesUnchanged
    /\ (Visits("Const") \/ Visits("Enum"))
          => /\ result' = "running"
             /\ user_code' = Append(user_code, item')
             /\ user_imports' = user_imports
             /\ TablesUnchanged
    /\ Visits("Use")
          => /\ result' = "running"
             /\ user_imports' = Append(user_imports, item')
             /\ user_code' = user_code
             /\ TablesUnchanged

\* C12: a struct that does not carry 'resources' and an item of any other
\* unclassified kind is appended to user_code as it was in the input, with
\* the attribute list it had, an import is appended to user_imports, and
\* such a declaration changes none of the tables.
C12_PassThrough == [][C12_Step]_vars

----------------------------------------------------------------------------
(* C13 *)

IsUnitReturn(o) == o = RetDefault \/ o = RetType(TyTuple(0))

IsNeverReturn(o) == o = RetType(TyNever)

IsGeneratorReturn(o) == o = RetType(TyImplTrait(<<GeneratorBound>>))

\* a task whose name, signature, context parameter and locals are in order
OtherwiseValid(it) ==
    /\ it.ident \notin {"init", "idle"}
    /\ it.modifiers = {}
    /\ it.inputs = <<Context(it.ident)>>
    /\ ~RunHasDuplicate(it.stmts)

ParsedTask == arg.fn = "HardwareTask::parse" /\ ret.done

\* C13 as stated: such a task is accepted exactly when it returns unit, the
\* never type or the generator shape.
C13_Original ==
    (ParsedTask /\ OtherwiseValid(arg.input))
        => (ret.val.ok <=> \/ IsUnitReturn(arg.input.output)
                           \/ IsNeverReturn(arg.input.output)
                           \/ IsGeneratorReturn(arg.input.output))

\* C13: HardwareTask::parse accepts such a task exactly when its return type
\* is unit (written '()' or left out) or the generator shape; the never type
\* and every other return type are rejected with the signature error; and
\* is_generator of the task is true exactly for the generator shape.
C13_ReturnShapes ==
    (ParsedTask /\ OtherwiseValid(arg.input))
        => LET o == arg.input.output
           IN  /\ ret.val.ok <=> (IsUnitReturn(o) \/ IsGeneratorReturn(o))
               /\ ~ret.val.ok => ret.val.err = ErrTaskSignature(arg.input.ident)
               /\ ret.val.ok => (ret.val.val.is_generator <=> IsGeneratorReturn(o))

C13_Witness ==
    /\ ParsedTask /\ OtherwiseValid(arg.input)
    /\ IsGeneratorReturn(arg.input.output)
    /\ ret.val.ok /\ ret.val.val.is_generator

----------------------------------------------------------------------------
(* C14 *)

\* '#[core = N]' with N an unsuffixed integer literal
IsCoreAnnotation(a) ==
    /\ a.style = "Outer" /\ a.path = <<"core">>
    /\ a.tokens.valid /\ a.tokens.lit.suffix = ""

CoreOf(a) == a.tokens.lit.value

\* the positions of the annotations that name a core below c, and of those
\* whose number does not fit a u8
Qualifying(attrs, c) ==
    {i \in 1..Len(attrs) : IsCoreAnnotation(attrs[i]) /\ CoreOf(attrs[i]) < c}

Overflowing(attrs) ==
    {i \in 1..Len(attrs) : IsCoreAnnotation(attrs[i]) /\ CoreOf(attrs[i]) > U8Max}

SharedPositions(attrs) ==
    {i \in 1..Len(attrs) : attrs[i].style = "Outer" /\ attrs[i].path = <<"shared">>}

Least(S) == CHOOSE i \in S : \A j \in S : i <= j

Called(f) == arg.fn = f /\ ret.done

C14_ParseCore ==
    Called("parse_core") =>
        LET lit == arg.input.lit
            c == arg.input.cores
        IN  /\ ret.val.ok <=> (lit.suffix = "" /\ lit.value < c)
            /\ ret.val.ok => ret.val.val = lit.value
            /\ lit.suffix # "" => ret.val.err = ErrUnsuffixed
            /\ (lit.suffix = "" /\ lit.value >= c) => ret.val.err = ErrCoreRange(c)

C14_ExtractShared ==
    Called("extract_shared") =>
        LET attrs == arg.input.attrs
            S == SharedPositions(attrs)
        IN  /\ (S # {} /\ arg.input.cores = 1)
                  => ~ret.val.ok /\ ret.val.err = ErrSharedSingle
            /\ (S # {} /\ arg.input.cores # 1)
                  => /\ ret.val.ok /\ ret.val.val
                     /\ ret.val.attrs = Remove(attrs, Least(S))
            /\ S = {} => ret.val.ok /\ ~ret.val.val /\ ret.val.attrs = attrs

\* C14 as stated: parse_core and extract_core both accept '#[core = N]'
\* exactly when N is unsuffixed and below c and reject N >= c as out of
\* range, a missing core attribute is rejected, and '#[shared]' is rejected
\* for c = 1 and removed otherwise.
C14_Original ==
    /\ C14_ParseCore
    /\ C14_ExtractShared
    /\ Called("extract_core") =>
          LET attrs == arg.input.attrs
              c == arg.input.cores
          IN  /\ \A i \in 1..Len(attrs) :
                    (IsCoreAnnotation(attrs[i]) /\ CoreOf(attrs[i]) >= c)
                        => ~ret.val.ok /\ ret.val.err = ErrCoreRange(c)
              /\ (\A i \in 1..Len(attrs) : attrs[i].path # <<"core">>) => ~ret.val.ok

\* C14: parse_core accepts an unsuffixed N below c and rejects N >= c with
\* the range error; extract_core takes the first unsuffixed '#[core = N]'
\* with N below c, removes it alone and yields N, passing over the
\* annotations before it that are suffixed or not below c; it fails with
\* the missing-core error when no annotation qualifies (one with N >= c
\* included), and with the integer error when it meets a number above 255
\* first; '#[shared]' is rejected for c = 1 and removed otherwise.
C14_CoreGating ==
    /\ C14_ParseCore
    /\ C14_ExtractShared
    /\ Called("extract_core") =>
          LET attrs == arg.input.attrs
              c == arg.input.cores
              Q == Qualifying(attrs, c)
              O == Overflowing(attrs)
          IN  /\ ret.val.ok <=> (Q # {} /\ \A j \in O : Least(Q) < j)
              /\ ret.val.ok => /\ ret.val.core = CoreOf(attrs[Least(Q)])
                               /\ ret.val.attrs = Remove(attrs, Least(Q))
              /\ (Q = {} /\ O = {}) => ret.val.err = ErrCoreMissing
              /\ (O # {} /\ \A k \in Q : Least(O) < k) => ret.val.err = ErrParseInt

C14_Witness ==
    /\ Called("extract_core")
    /\ arg.input.cores = 4
    /\ arg.input.attrs = <<CoreAttr(TRUE, LitInt(4, "")), CoreAttr(TRUE, LitInt(3, ""))>>
    /\ ret.val.ok /\ ret.val.core = 3
    /\ ret.val.attrs = <<CoreAttr(TRUE, LitInt(4, ""))>>

----------------------------------------------------------------------------
(* C15 *)

\* entries separated by one comma each, the last one with or without a comma
\* after it; a comma on its own is a leading comma
CommaSeparated(in) ==
    /\ in.lead = <<>>
    /\ in.sep = <<Comma>>
    /\ in.trail = <<>> \/ (in.trail = <<Comma>> /\ in.entries # <<>>)

KeyRepeats(es, k) == \E j \in 1..(k - 1) : es[j].key = es[k].key

Suffixed(v) == v.kind = "Int" /\ v.suffix # ""

OtherLiteral(v) == v.kind = "Str"

\* the entries that cannot be stored
Refused(es) ==
    {k \in 1..Len(es) : KeyRepeats(es, k) \/ Suffixed(es[k].value) \/ OtherLiteral(es[k].value)}

Classified(v) ==
    CASE v.kind \in {"Ident", "Path"} -> CustomPath(v.text)
      [] v.kind = "Bool" -> CustomBool(v.text = "true")
      [] v.kind = "Int" -> CustomUInt(v.text)

\* C15: on comma-separated 'key = value' entries AppArgs::parse returns the
\* map with one entry per key, in input order, each value a Path, a Bool or
\* an unsuffixed UInt, and nothing else; it fails with "argument appears
\* more than once" as soon as a key repeats, and fails on a suffixed integer
\* and on any other literal.
C15_CustomArgs ==
    (Called("AppArgs::parse") /\ CommaSeparated(arg.input)) =>
        LET es == arg.input.entries
            R == Refused(es)
        IN  /\ ret.val.ok <=> R = {}
            /\ ret.val.ok =>
                  ret.val.custom =
                      [i \in 1..Len(es) |-> [key |-> es[i].key, val |-> Classified(es[i].value)]]
            /\ R # {} =>
                  LET k == Least(R)
                  IN  /\ KeyRepeats(es, k) => ret.val.err = ErrArgTwice
                      /\ (~KeyRepeats(es, k) /\ Suffixed(es[k].value))
                            => ret.val.err = ErrIntSuffix
                      /\ (~KeyRepeats(es, k) /\ OtherLiteral(es[k].value))
                            => ret.val.err = ErrArgValue

\* 'peripherals = true' gives exactly {peripherals -> Bool(true)}
C15_Witness ==
    /\ Called("AppArgs::parse")
    /\ TokenStream(arg.input) =
          <<Tok("Ident", "peripherals", ""), Eq, Tok("Bool", "true", "")>>
    /\ ret.val.ok
    /\ ret.val.custom = <<[key |-> "peripherals", val |-> CustomBool(TRUE)]>>

----------------------------------------------------------------------------
(* C16 *)

\* AppAttribute of a recognized attribute name
KindOf(name) ==
    CASE name = "resources" -> "Resources"
      [] name = "init" -> "Init"
      [] name = "idle" -> "Idle"
      [] name = "task" -> "Task"
      [] name = "dispatch" -> "Dispatch"

HasAttrs(it) == it.kind \in {"Fn", "Struct", "Const", "Enum"}

\* what parse_attr returns for the attribute list of the declaration just
\* visited, by the number of recognized attributes in the list
C16_Result ==
    item.kind \in {"Fn", "Struct"} =>
        LET r == parse_attr(item.attrs)
            M == MarkerPositions(item)
        IN  /\ M = {} => /\ ~r.panic /\ r.kind = "None" /\ r.attr = NoneAttr
                         /\ r.attrs = item.attrs
            /\ Cardinality(M) = 1 =>
                  /\ ~r.panic
                  /\ r.kind = KindOf(item.attrs[Least(M)].path[1])
                  /\ r.attr = item.attrs[Least(M)]
                  /\ r.attrs = Remove(item.attrs, Least(M))
            /\ Cardinality(M) >= 2 => r.panic /\ result = "panic"

C16_Accepted(kinds) ==
    /\ (pos' = pos + 1 /\ item'.kind \in kinds /\ Cardinality(MarkerPositions(item')) >= 2)
          => /\ result' = "panic"
             /\ TablesUnchanged
             /\ UNCHANGED <<user_code, user_imports, seen_idents, bindings>>
    /\ (Visits("Struct") /\ Cardinality(MarkerPositions(item')) = 1
           /\ SoleMarker(item') # "resources")
          => user_code' = Append(user_code,
                 [item' EXCEPT !.attrs = Remove(@, Least(MarkerPositions(item')))])
    /\ (Visits("Struct") /\ MarkerPositions(item') = {})
          => user_code' = Append(user_code, item')

\* C16 as stated: parse_attr returns (None, None) and the list unchanged
\* without a recognized attribute, the kind and the attribute with that
\* attribute alone removed for one, and aborts for two or more, so that no
\* item with two recognized attributes is accepted into an App.
C16_Original ==
    []C16_Result /\ [][C16_Accepted({"Fn", "Struct", "Const", "Enum"})]_vars

\* C16: parse_attr returns (None, None) and the list unchanged without a
\* recognized attribute, the kind and the attribute with that attribute
\* alone removed for one, and aborts for two or more, so that no function
\* and no struct with two recognized attributes is accepted into an App;
\* the attributes of the items of the other kinds are not looked at.
C16_ParseAttr ==
    []C16_Result /\ [][C16_Accepted({"Fn", "Struct"})]_vars

C16_Witness ==
    /\ item.kind = "Fn"
    /\ Cardinality(MarkerPositions(item)) = 2
    /\ result = "panic"

----------------------------------------------------------------------------
(* C17 *)

C17_Step ==
    (Visits("Struct") /\ SoleMarker(item') = "resources" /\ resource_struct # <<>>)
        => result' = ErrResStructTwice

\* C17: once a 'resources' struct has been processed, a later struct
\* carrying 'resources', of the same or of another name, makes the parse fail
\* with "'#[resources]' struct must appear at most once", so that the
\* resources of a returned App come from one struct.
C17_SingleStruct == [](Len(resource_struct) <= 1) /\ [][C17_Step]_vars

----------------------------------------------------------------------------
(* C18 *)

\* the identifiers an entry is written with
IdentsOf(e) ==
    IF e.node = "Lit" THEN {}
    ELSE {e.path.segments[k].ident : k \in 1..Len(e.path.segments)}

OccursTwice(list) ==
    \E i, j \in 1..Len(list) : i # j /\ IdentsOf(list[i]) \cap IdentsOf(list[j]) # {}

\* the first entry that is neither 'x' nor '&x', with no repeat before it
FirstMisshapen(list, i) ==
    /\ ~(IsBare(list[i]) \/ IsSharedRef(list[i]))
    /\ WellFormedList(SubSeq(list, 1, i - 1))
    /\ ~OccursTwice(SubSeq(list, 1, i - 1))

\* C18: parse_resources rejects an entry that is neither a plain identifier
\* nor a non-mutable reference to one with the shape error, and gives an
\* "appears more than once in list" error only when an identifier occurs
\* twice in the list.
C18_ErrorKinds ==
    Called("parse_resources") =>
        LET list == arg.input
        IN  /\ (\E i \in 1..Len(list) : FirstMisshapen(list, i))
                  => ~ret.val.ok /\ ret.val.err = ErrResPath
            /\ (~ret.val.ok /\ ret.val.err \in {ErrListShape, ErrResListTwice})
                  => OccursTwice(list)

----------------------------------------------------------------------------
(* C19 *)

C19_Agree ==
    result \in {"running", "Ok"} =>
        /\ seen_idents = Range(EntityNames)
        /\ bindings = Range(BindsSeq)
        /\ Keys(hardware_tasks) \cap Keys(software_tasks) = {}

C19_Step ==
    (pos' = pos + 1 /\ item'.kind # "Fn") => UNCHANGED <<seen_idents, bindings>>

\* C19: after every declaration of a parse that has not failed, seen_idents
\* is the set of the names of the stored init, idle and tasks, bindings is
\* the set of the 'binds' of the stored hardware tasks, and no name is a key
\* of both task tables; a struct, a foreign block, an import or an item
\* passed through leaves seen_idents and bindings as they were.
C19_Accumulators == []C19_Agree /\ [][C19_Step]_vars

C19_Witness ==
    /\ result = "running" /\ pos = 2
    /\ inits # <<>> /\ hardware_tasks # <<>>
    /\ Cardinality(seen_idents) = 2 /\ Cardinality(bindings) = 1

----------------------------------------------------------------------------
(* C20 *)

\* C20: when no item carries more than one recognized attribute, App::parse
\* visits each declaration at most once and ends with an App or with a parse
\* error, never with a panic, a foreign block holding an item that is not a
\* function included.
C20_NoPanic ==
    /\ pos <= MaxItems
    /\ result = "panic" => (HasAttrs(item) /\ Cardinality(MarkerPositions(item)) >= 2)

====
